---- MODULE Spec2Model ----
(***************************************************************************)
(* State-machine model of the Chainlink Functions request runner           *)
(* (chainlink-scheduler/functions_request.py): main(), wait_for_receipt,   *)
(* build_fees, send_tx and fail, run against a chain endpoint whose        *)
(* answers (receipts, logs, block number, gas price, transaction count,    *)
(* faults) are chosen by the environment.                                  *)
(*                                                                         *)
(* Time is an integer number of seconds.  It passes while the program      *)
(* sleeps and while a slow polling call to the endpoint is in flight.      *)
(* What the chain does at a time has happened before the endpoint answers  *)
(* a receipt query made at that time.                                      *)
(*                                                                         *)
(* The environment is bounded by a budget of deviations: in the nominal    *)
(* run the gas price is readable and steady, a broadcast transaction is    *)
(* included at once or never, nobody else uses the account, every polling  *)
(* call answers at once, and the only logs are Response logs of the        *)
(* consumer emitted after the request transaction succeeded.  Every other  *)
(* lasting choice of the environment costs one deviation.  Answers that    *)
(* end the run (faults, reverts) are free.                                 *)
(*                                                                         *)
(* The last two sections model the web application: the listings store of  *)
(* tech/app/hashi.py and the oracle cache of tech/app/api_endpoints.py,    *)
(* each served by two request threads whose reads and writes of the file   *)
(* interleave.  They have specifications of their own (ListingsSpec,       *)
(* CacheSpec); in the specifications of the runner they are at rest.       *)
(***************************************************************************)
EXTENDS Integers, Sequences, FiniteSets, TLC

\* ------------------------------------------------------------- bounds
\* number of wei in one gwei (scaled down from 10^9 to keep fees small)
WeiPerGwei == 10
\* log entries the chain emits during a run
MaxLogs == 2
\* departures of the environment from the nominal run (see Deviation)
MaxDeviations == 1
\* seconds a slow polling call takes
SlowCallSeconds == 1
\* the gas price of the nominal run, in wei
NominalGasPrice == 7
\* the largest gas price build_fees is tried on, in wei
MaxGasPrice == 60

\* ------------------------------------------------- program constants
SEPOLIA_CHAIN_ID == 11155111
GAS_LIMIT == 700000
RECEIPT_TIMEOUT_S == 300
RECEIPT_SLEEP_S == 2
EVENT_TIMEOUT_S == 600
EVENT_SLEEP_S == 3
DEFAULT_BASE_GWEI == 10
PRIORITY_GWEI == 1

None == [none |-> TRUE]
NoInt == 0 - 1

\* ------------------------------------------------------ input domains
UrlInputs == {<<>>, <<"https://rpc">>}
KeyInputs == {<<>>, <<"0x", "key">>, <<"key">>}
AddressInputs == {<<>>, <<"0x", "consumer">>, <<"bogus">>}
SubscriptionInputs == {<<>>, <<"42">>, <<"abc">>}
ChainIds == {SEPOLIA_CHAIN_ID, 1}
GasPrices == {0, NominalGasPrice}
OTHER_ADDRESS == <<"0x", "other">>
RESPONSE_SIGNATURE == "Response(bytes32,string,bytes)"
OTHER_SIGNATURE == "RequestSent(bytes32)"

\* ------------------------------------------------------ pure helpers
HexDigits == <<"0", "1", "2", "3", "4", "5", "6", "7",
               "8", "9", "a", "b", "c", "d", "e", "f">>

\* bytes.hex(): two lowercase hex digits per byte
RECURSIVE BytesHex(_)
BytesHex(bs) ==
    IF bs = <<>> THEN <<>>
    ELSE <<HexDigits[(Head(bs) \div 16) + 1], HexDigits[(Head(bs) % 16) + 1]>>
         \o BytesHex(Tail(bs))

\* w3.keccak(text=...): an injective digest of the event signature
keccak(text) == [keccak |-> text]

\* the hash of a signed transaction, a function of its signed bytes
TxHash(tx) == [hashOf |-> tx]

to_wei(n) == n * WeiPerGwei

\* bytes.hex() of a hash or an identifier: an injective rendering as text
hex(b) == [hex |-> b]

\* build_fees with a mutated fee formula (priority fee left out of the cap)
build_fees_no_priority(price) ==
    LET base == IF price = NoInt THEN to_wei(DEFAULT_BASE_GWEI) ELSE price
    IN  [maxFeePerGas |-> base * 2,
         maxPriorityFeePerGas |-> to_wei(PRIORITY_GWEI)]

\* build_fees(w3); price is the answer of w3.eth.gas_price, NoInt when
\* the read raised
build_fees(price) ==
    LET base == IF price = NoInt THEN to_wei(DEFAULT_BASE_GWEI) ELSE price
        max_priority == to_wei(PRIORITY_GWEI)
    IN  [maxFeePerGas |-> base * 2 + max_priority,
         maxPriorityFeePerGas |-> max_priority]

\* ------------------------------------------------------------- state
VARIABLES
    \* module-level configuration read from the environment at import
    SEPOLIA_RPC_URL, PRIVATE_KEY, CONSUMER_ADDRESS_RAW, SUBSCRIPTION_ID_RAW,
    source_exists,      \* functions/source.js is present
    \* main()
    pc,                 \* position of the run
    stage,              \* the try block the run is in: setSource, sendRequest
    fees, nonce, tx1, tx2, tx_hash1, tx_hash2, receipt1, receipt2,
    start_block, start_time, latest, logs,
    stdout,             \* the lines printed, in order
    stderr,             \* the exception that escaped main(), None if none
    \* wait_for_receipt()
    start,
    \* the chain behind the RPC endpoint
    now,                \* time.time()
    chainId, gasPrice, txCount, head, mempool, receipts, chainLogs,
    includeAt,          \* time at which the pending transaction is included
    minedAt,            \* time at which the run's last transaction was included
    dev,                \* deviations spent
    \* history of the collaborator calls the run has made
    countReads,         \* transactionCount reads: value, receipts held then
    priceReads,         \* gasPrice reads: answer, receipts held then
    sendCalls,          \* sendRawTransaction calls: tx, accepted, held, time
    lastLogQuery,       \* the latest getLogs call: filter, faulted or not
    queryIssuedAt,      \* time at which the poller issued its latest query
    \* what surrounds the run
    peer,               \* another run of main() with the same credential
    cancelled,          \* the caller has asked the run to stop
    \* tech/app/hashi.py: the listings store and its request threads
    db,                 \* the file at DB_PATH
    handler,            \* what each request thread is doing
    submitted,          \* onboard POSTs received so far
    confirmed,          \* companies told their listing was submitted
    \* tech/app/api_endpoints.py: the oracle cache and its request threads
    cache,              \* the file at CACHE_PATH
    CACHE_LOCK,         \* holder of _CACHE_LOCK, 0 when free
    worker,             \* what each request thread is doing
    written,            \* the records saved so far, with their keys
    acked               \* the records of the requests answered ok = 1

config == <<SEPOLIA_RPC_URL, PRIVATE_KEY, CONSUMER_ADDRESS_RAW,
            SUBSCRIPTION_ID_RAW, source_exists>>
locals == <<stage, fees, nonce, tx1, tx2, tx_hash1, tx_hash2, receipt1,
            receipt2, start_block, start_time, latest, logs, start>>
chain == <<chainId, gasPrice, txCount, head, mempool, receipts, chainLogs,
           includeAt, minedAt, dev>>
history == <<countReads, priceReads, sendCalls, lastLogQuery,
             queryIssuedAt>>
output == <<stdout, stderr>>
listings == <<db, handler, submitted, confirmed>>
oracle == <<cache, CACHE_LOCK, worker, written, acked>>
web == <<listings, oracle>>
around == <<peer, cancelled, web>>
vars == <<config, pc, locals, output, now, chain, history, around>>

Stages == {"setSource", "sendRequest"}
Terminal == {"returned", "SystemExit", "uncaught"}

\* Web3.to_checksum_address accepts a 0x-prefixed address only
IsAddress(raw) == Len(raw) = 2 /\ raw[1] = "0x"
\* int(SUBSCRIPTION_ID_RAW) accepts decimal digits only
IsDecimal(raw) == raw = <<"42">>
consumer_address == CONSUMER_ADDRESS_RAW
sender == <<"0x", "sender">>

\* receipts the run holds: how many of receipt1, receipt2 are set
Held == (IF receipt1 = None THEN 0 ELSE 1) + (IF receipt2 = None THEN 0 ELSE 1)

\* nothing has run yet and the chain has seen nothing of the account
\* request threads of the web application (hashi.py, api_endpoints.py)
Handlers == {1, 2}
Workers == {1, 2}

\* the web application serves no request and has no file yet
WebAtRest ==
    /\ db = [kind |-> "missing", data |-> <<>>]
    /\ handler = [h \in Handlers |-> [pc |-> "idle"]]
    /\ submitted = 0 /\ confirmed = {}
    /\ cache = [kind |-> "missing"]
    /\ CACHE_LOCK = 0
    /\ worker = [w \in Workers |-> [pc |-> "idle"]]
    /\ written = {} /\ acked = {}

Fresh ==
    /\ stage = "setSource"
    /\ fees = None /\ nonce = NoInt
    /\ tx1 = None /\ tx2 = None /\ tx_hash1 = None /\ tx_hash2 = None
    /\ receipt1 = None /\ receipt2 = None
    /\ start_block = NoInt /\ start_time = NoInt /\ latest = NoInt
    /\ logs = <<>> /\ stdout = <<>> /\ stderr = None
    /\ start = NoInt
    /\ now = 0
    /\ txCount = 0 /\ head = 0
    /\ mempool = {} /\ receipts = {} /\ chainLogs = <<>>
    /\ includeAt = NoInt /\ minedAt = 0
    /\ countReads = <<>> /\ priceReads = <<>> /\ sendCalls = <<>>
    /\ lastLogQuery = None /\ queryIssuedAt = NoInt
    /\ cancelled = FALSE

\* no other run uses the credential
NoPeer == [pc |-> "absent"]

Init ==
    /\ SEPOLIA_RPC_URL \in UrlInputs
    /\ PRIVATE_KEY \in KeyInputs
    /\ CONSUMER_ADDRESS_RAW \in AddressInputs
    /\ SUBSCRIPTION_ID_RAW \in SubscriptionInputs
    /\ source_exists \in BOOLEAN
    /\ pc = "main"
    /\ chainId \in ChainIds
    /\ gasPrice = NominalGasPrice
    /\ dev = 0
    /\ peer = NoPeer
    /\ Fresh
    /\ WebAtRest

\* mutant of fail: the payload is printed and the run goes on
fail_without_exit(payload) ==
    /\ stdout' = Append(stdout, payload)
    /\ UNCHANGED <<pc, stderr>>

\* fail(payload): print the payload as one line and raise SystemExit
fail(payload) ==
    /\ stdout' = Append(stdout, payload)
    /\ pc' = "SystemExit"
    /\ UNCHANGED stderr

\* an exception no handler of main() catches: a traceback, no outcome line
raise_uncaught(exception) ==
    /\ stderr' = [exception |-> exception]
    /\ pc' = "uncaught"
    /\ UNCHANGED stdout

\* ------------------------------------------------------ main: startup
\* lines 113-135: the configuration checks, the normalisation of the key
Validate ==
    /\ pc = "main"
    /\ IF SEPOLIA_RPC_URL = <<>>
       THEN /\ fail([ok |-> FALSE,
                     error |-> <<"Missing SEPOLIA_RPC_URL in .env">>])
            /\ UNCHANGED PRIVATE_KEY
       ELSE IF PRIVATE_KEY = <<>>
       THEN /\ fail([ok |-> FALSE,
                     error |-> <<"Missing PRIVATE_KEY in .env">>])
            /\ UNCHANGED PRIVATE_KEY
       ELSE /\ PRIVATE_KEY' = IF PRIVATE_KEY[1] = "0x" THEN PRIVATE_KEY
                              ELSE <<"0x">> \o PRIVATE_KEY
            /\ IF CONSUMER_ADDRESS_RAW = <<>>
               THEN fail([ok |-> FALSE,
                          error |-> <<"Missing CONSUMER_ADDRESS in .env">>])
               ELSE IF SUBSCRIPTION_ID_RAW = <<>>
               THEN fail([ok |-> FALSE,
                          error |-> <<"Missing SUBSCRIPTION_ID in .env">>])
               ELSE IF ~IsAddress(CONSUMER_ADDRESS_RAW)
                       \/ ~IsDecimal(SUBSCRIPTION_ID_RAW)
               THEN raise_uncaught("ValueError")
               ELSE pc' = "chain_id" /\ UNCHANGED output
    /\ UNCHANGED <<SEPOLIA_RPC_URL, CONSUMER_ADDRESS_RAW, SUBSCRIPTION_ID_RAW,
                   source_exists, locals, now, chain, history>>
    /\ UNCHANGED around

\* mutant of chain_id_expected: any chain is taken for Sepolia
chain_id_unchecked(id) == TRUE

\* line 146: chain_id != 11155111 fails the run
chain_id_expected(id) == id = SEPOLIA_CHAIN_ID

\* lines 138-147: the chain id is read once and compared with Sepolia's
ReadChainId ==
    /\ pc = "chain_id"
    /\ \E answer \in {chainId, NoInt} :
         IF answer = NoInt
         THEN fail([ok |-> FALSE, error |-> <<"RPC not responding">>])
         ELSE IF ~chain_id_expected(answer)
         THEN fail([ok |-> FALSE,
                    error |-> <<"Unexpected chain_id", answer>>])
         ELSE pc' = "source" /\ UNCHANGED output
    /\ UNCHANGED <<config, locals, now, chain, history>>
    /\ UNCHANGED around

\* lines 149-166: account, contract handle, the source file, the arguments
LoadSource ==
    /\ pc = "source"
    /\ IF ~source_exists
       THEN fail([ok |-> FALSE,
                  error |-> <<"functions/source.js not found">>])
       ELSE pc' = "fees" /\ UNCHANGED output
    /\ UNCHANGED <<config, locals, now, chain, history>>
    /\ UNCHANGED around

\* line 168: fees = build_fees(w3), the only call of build_fees in a run.
\* An unreadable price is a deviation: the fallback fee stays in the run.
BuildFees ==
    /\ pc = "fees"
    /\ \E price \in {gasPrice, NoInt} :
         /\ price = NoInt => dev < MaxDeviations
         /\ dev' = IF price = NoInt THEN dev + 1 ELSE dev
         /\ fees' = build_fees(price)
         /\ priceReads' = Append(priceReads, [value |-> price, held |-> Held])
    /\ pc' = "nonce"
    /\ UNCHANGED <<config, stage, nonce, tx1, tx2, tx_hash1, tx_hash2,
                   receipt1, receipt2, start_block, start_time, latest, logs,
                   start, output, now, chainId, gasPrice, txCount, head,
                   mempool, receipts, chainLogs, includeAt, minedAt,
                   countReads, sendCalls, lastLogQuery, queryIssuedAt>>
    /\ UNCHANGED around

\* ------------------------------------- main: the two transaction stages
tx_hash == IF stage = "setSource" THEN tx_hash1 ELSE tx_hash2
receipt == IF stage = "setSource" THEN receipt1 ELSE receipt2

\* mutant of fetched_nonce: the second nonce assumed to follow the first
assumed_nonce(count, previous) ==
    IF previous = NoInt THEN count ELSE previous + 1

\* lines 172 and 200: nonce = w3.eth.get_transaction_count(sender);
\* count is the answer of the endpoint, previous the nonce held before
fetched_nonce(count, previous) == count

\* lines 173-181 and 201-209: build_transaction with the nonce just read
\* and the fee fields of the run
build_transaction(fn, nonce_, fees_) ==
    [to |-> consumer_address, fn |-> fn, from |-> sender, nonce |-> nonce_,
     chainId |-> SEPOLIA_CHAIN_ID, gas |-> GAS_LIMIT,
     maxFeePerGas |-> fees_.maxFeePerGas,
     maxPriorityFeePerGas |-> fees_.maxPriorityFeePerGas]

\* mutant of receipt_succeeded: the status of the receipt is not looked at
receipt_status_ignored(r) == TRUE

\* mutant of receipt_succeeded: only the config receipt's status is checked
receipt_checked_for_config_only(r) ==
    r.transactionHash.hashOf.fn = "sendRequest" \/ r.status = 1

\* lines 184 and 212: receipt.get("status") != 1 fails the stage
receipt_succeeded(r) == r.status = 1

\* mutant of timed_out: the first deadline check already gives up
timed_out_at_first_check(t, since, timeout_s) == TRUE

\* mutant of timed_out: the deadline itself already counts as elapsed
timed_out_at_deadline(t, since, timeout_s) == t - since >= timeout_s

\* lines 80 and 234: time.time() - start > timeout_s
timed_out(t, since, timeout_s) == t - since > timeout_s

ReadNonce ==
    /\ pc = "nonce"
    /\ \E answer \in {txCount, NoInt} :
         IF answer = NoInt
         THEN /\ fail([ok |-> FALSE, stage |-> stage,
                       error |-> <<"get_transaction_count failed">>])
              /\ UNCHANGED <<nonce, countReads>>
         ELSE /\ nonce' = fetched_nonce(answer, nonce)
              /\ countReads' =
                     Append(countReads, [value |-> answer, held |-> Held])
              /\ pc' = "send"
              /\ UNCHANGED output
    /\ UNCHANGED <<config, stage, fees, tx1, tx2, tx_hash1, tx_hash2,
                   receipt1, receipt2, start_block, start_time, latest, logs,
                   start, now, chain, priceReads, sendCalls,
                   lastLogQuery, queryIssuedAt>>
    /\ UNCHANGED around

\* delays, from the broadcast, at which a transaction is included: at
\* once, after one sleep of the poller, at the end of the confirmation
\* window, one sleep after it; NoInt is never
InclusionDelays ==
    {0, RECEIPT_SLEEP_S, RECEIPT_TIMEOUT_S, RECEIPT_TIMEOUT_S + RECEIPT_SLEEP_S}

\* mutant of SendTx: a refused transaction is broadcast again
SendTxRebroadcasts ==
    /\ pc = "send"
    /\ LET fn == IF stage = "setSource" THEN "setSource" ELSE "sendRequest"
           tx == build_transaction(fn, nonce, fees)
       IN \E answer \in {"accepted", "rejected", "unbuilt"} :
            /\ answer = "accepted" => tx.nonce >= txCount /\ tx \notin mempool
            /\ IF answer = "unbuilt"
               THEN /\ fail([ok |-> FALSE, stage |-> stage,
                             error |-> <<"build_transaction failed">>])
                    /\ UNCHANGED <<tx1, tx2, tx_hash1, tx_hash2, mempool,
                                   includeAt, dev, sendCalls>>
               ELSE /\ tx1' = IF stage = "setSource" THEN tx ELSE tx1
                    /\ tx2' = IF stage = "sendRequest" THEN tx ELSE tx2
                    /\ sendCalls' =
                         Append(sendCalls, [tx |-> tx,
                                            accepted |-> answer = "accepted",
                                            held |-> Held, at |-> now])
                    /\ IF answer = "accepted"
                       THEN /\ mempool' = mempool \cup {tx}
                            /\ \E d \in InclusionDelays \cup {NoInt} :
                                 LET cost == IF d \in {0, NoInt} THEN 0 ELSE 1
                                 IN  /\ dev + cost <= MaxDeviations
                                     /\ dev' = dev + cost
                                     /\ includeAt' = IF d = NoInt THEN NoInt
                                                     ELSE now + d
                            /\ tx_hash1' = IF stage = "setSource"
                                           THEN TxHash(tx) ELSE tx_hash1
                            /\ tx_hash2' = IF stage = "sendRequest"
                                           THEN TxHash(tx) ELSE tx_hash2
                            /\ pc' = "wait"
                            /\ UNCHANGED output
                       ELSE /\ UNCHANGED <<pc, output>>
                            /\ UNCHANGED <<tx_hash1, tx_hash2, mempool,
                                           includeAt, dev>>
    /\ UNCHANGED <<config, stage, fees, nonce, receipt1, receipt2,
                   start_block, start_time, latest, logs, start, now,
                   chainId, gasPrice, txCount, head, receipts, chainLogs,
                   minedAt, countReads, priceReads, lastLogQuery,
                   queryIssuedAt>>
    /\ UNCHANGED around

\* lines 173-182 and 201-210: build, sign (send_tx) and broadcast.  The
\* endpoint refuses a nonce below the account's count and a transaction it
\* already holds; it may refuse any
\* transaction; building or signing may raise before anything is sent.
\* The network decides when an accepted transaction will be included.
SendTx ==
    /\ pc = "send"
    /\ LET fn == IF stage = "setSource" THEN "setSource" ELSE "sendRequest"
           tx == build_transaction(fn, nonce, fees)
       IN \E answer \in {"accepted", "rejected", "unbuilt"} :
            /\ answer = "accepted" => tx.nonce >= txCount /\ tx \notin mempool
            /\ IF answer = "unbuilt"
               THEN /\ fail([ok |-> FALSE, stage |-> stage,
                             error |-> <<"build_transaction failed">>])
                    /\ UNCHANGED <<tx1, tx2, tx_hash1, tx_hash2, mempool,
                                   includeAt, dev, sendCalls>>
               ELSE /\ tx1' = IF stage = "setSource" THEN tx ELSE tx1
                    /\ tx2' = IF stage = "sendRequest" THEN tx ELSE tx2
                    /\ sendCalls' =
                         Append(sendCalls, [tx |-> tx,
                                            accepted |-> answer = "accepted",
                                            held |-> Held, at |-> now])
                    /\ IF answer = "accepted"
                       THEN /\ mempool' = mempool \cup {tx}
                            /\ \E d \in InclusionDelays \cup {NoInt} :
                                 LET cost == IF d \in {0, NoInt} THEN 0 ELSE 1
                                 IN  /\ dev + cost <= MaxDeviations
                                     /\ dev' = dev + cost
                                     /\ includeAt' = IF d = NoInt THEN NoInt
                                                     ELSE now + d
                            /\ tx_hash1' = IF stage = "setSource"
                                           THEN TxHash(tx) ELSE tx_hash1
                            /\ tx_hash2' = IF stage = "sendRequest"
                                           THEN TxHash(tx) ELSE tx_hash2
                            /\ pc' = "wait"
                            /\ UNCHANGED output
                       ELSE /\ fail([ok |-> FALSE, stage |-> stage,
                                     error |-> <<"send_raw_transaction failed">>])
                            /\ UNCHANGED <<tx_hash1, tx_hash2, mempool,
                                           includeAt, dev>>
    /\ UNCHANGED <<config, stage, fees, nonce, receipt1, receipt2,
                   start_block, start_time, latest, logs, start, now,
                   chainId, gasPrice, txCount, head, receipts, chainLogs,
                   minedAt, countReads, priceReads, lastLogQuery,
                   queryIssuedAt>>
    /\ UNCHANGED around

\* ------------------------------------------------- wait_for_receipt
\* line 71: start = time.time()
WaitEntry ==
    /\ pc = "wait"
    /\ start' = now
    /\ queryIssuedAt' = now
    /\ pc' = "w_query"
    /\ UNCHANGED <<config, stage, fees, nonce, tx1, tx2, tx_hash1, tx_hash2,
                   receipt1, receipt2, start_block, start_time, latest, logs,
                   output, now, chain, countReads, priceReads, sendCalls,
                   lastLogQuery>>
    /\ UNCHANGED around

\* what get_transaction_receipt(h) can answer: the receipt once the
\* transaction is included, before that None or TransactionNotFound, and
\* at any time a fault of the transport
ReceiptAnswers(h) ==
    LET found == {r \in receipts : r.transactionHash = h}
    IN  found
        \cup (IF found = {}
              THEN {[absent |-> "None"], [absent |-> "TransactionNotFound"]}
              ELSE {})
        \cup {[fault |-> "ConnectionError"]}

\* mutant of is_absent: TransactionNotFound is not caught
is_absent_only_none(answer) ==
    "absent" \in DOMAIN answer /\ answer.absent = "None"

\* lines 75 and 77: the query returned None, or raised TransactionNotFound
is_absent(answer) == "absent" \in DOMAIN answer

\* str(e) of the exception a query raised
raised_text(answer) ==
    IF "fault" \in DOMAIN answer THEN answer.fault ELSE answer.absent

\* the inclusion of the pending transaction is due
MineDue ==
    /\ includeAt # NoInt
    /\ now >= includeAt
    /\ \E tx \in mempool : tx.nonce = txCount

\* lines 73-78: one query.  A receipt is returned to main, an absent
\* answer goes on to the deadline check, any other fault propagates to
\* the except clause of the stage (lines 195-196, 223-224).
WaitQuery ==
    /\ pc = "w_query"
    /\ ~MineDue
    /\ \E answer \in ReceiptAnswers(tx_hash) :
         IF "status" \in DOMAIN answer
         THEN /\ receipt1' = IF stage = "setSource" THEN answer ELSE receipt1
              /\ receipt2' = IF stage = "sendRequest" THEN answer ELSE receipt2
              /\ pc' = "status"
              /\ UNCHANGED output
         ELSE IF is_absent(answer)
         THEN /\ pc' = "w_check"
              /\ UNCHANGED <<receipt1, receipt2, output>>
         ELSE /\ fail([ok |-> FALSE, stage |-> stage,
                       error |-> <<raised_text(answer)>>])
              /\ UNCHANGED <<receipt1, receipt2>>
    /\ UNCHANGED <<config, stage, fees, nonce, tx1, tx2, tx_hash1, tx_hash2,
                   start_block, start_time, latest, logs, start, now,
                   chain, history>>
    /\ UNCHANGED around

\* lines 80-83: the deadline check after an absent answer, then
\* time.sleep(2).  TimeoutError is caught by the except clause of the stage.
WaitCheck ==
    /\ pc = "w_check"
    /\ IF timed_out(now, start, RECEIPT_TIMEOUT_S)
       THEN /\ fail([ok |-> FALSE, stage |-> stage,
                     error |-> <<"Timed out waiting for tx receipt: ",
                                 hex(tx_hash)>>])
            /\ UNCHANGED <<now, queryIssuedAt>>
       ELSE /\ now' = now + RECEIPT_SLEEP_S
            /\ queryIssuedAt' = now + RECEIPT_SLEEP_S
            /\ pc' = "w_query"
            /\ UNCHANGED output
    /\ UNCHANGED <<config, locals, chain, countReads, priceReads, sendCalls,
                   lastLogQuery>>
    /\ UNCHANGED around

\* lines 184-192 and 212-220: the status of the receipt decides the stage
CheckStatus ==
    /\ pc = "status"
    /\ IF ~receipt_succeeded(receipt)
       THEN /\ fail([ok |-> FALSE, stage |-> stage, txHash |-> hex(tx_hash),
                     status |-> receipt.status])
            /\ UNCHANGED stage
       ELSE /\ stage' = "sendRequest"
            /\ pc' = IF stage = "setSource" THEN "nonce" ELSE "ev_init"
            /\ UNCHANGED output
    /\ UNCHANGED <<config, fees, nonce, tx1, tx2, tx_hash1, tx_hash2,
                   receipt1, receipt2, start_block, start_time, latest, logs,
                   start, now, chain, history>>
    /\ UNCHANGED around

\* ------------------------------------------- main: the Response event
\* line 231: topic0 of the event the run waits for
event_sig == keccak(RESPONSE_SIGNATURE)

\* mutant of log_filter: anchored at the block of the config transaction
log_filter_from_config_block(start_block_, latest_) ==
    [fromBlock |-> receipt1.blockNumber, toBlock |-> latest_,
     address |-> consumer_address, topics |-> <<event_sig>>]

\* mutant of log_filter: topic0 of another event
log_filter_wrong_signature(start_block_, latest_) ==
    [fromBlock |-> start_block_, toBlock |-> latest_,
     address |-> consumer_address, topics |-> <<keccak(OTHER_SIGNATURE)>>]

\* lines 247-252: the filter of one log query
log_filter(start_block_, latest_) ==
    [fromBlock |-> start_block_, toBlock |-> latest_,
     address |-> consumer_address, topics |-> <<event_sig>>]

\* eth_getLogs: the entries of the blocks fromBlock..toBlock emitted by the
\* address with the topic0, in chain order
get_logs(filter) ==
    SelectSeq(chainLogs,
              LAMBDA l : /\ l.blockNumber >= filter.fromBlock
                         /\ l.blockNumber <= filter.toBlock
                         /\ l.address = filter.address
                         /\ l.topic0 = filter.topics[1])

\* lines 263-266: the error payload as a hex string
err_hex_of(err_bytes) ==
    IF err_bytes.kind = "bytes" THEN <<"0", "x">> \o BytesHex(err_bytes.val)
    ELSE err_bytes.val

\* mutant of error_is_empty: every all-zero payload counts as no error
error_is_empty_any_zeros(err_hex) ==
    /\ Len(err_hex) >= 2
    /\ \A i \in 1..Len(err_hex) : i > 2 => err_hex[i] = "0"

\* mutant of error_is_empty: only the empty payload counts as no error
error_is_empty_only_0x(err_hex) == err_hex = <<"0", "x">>

\* line 271: the ok flag of the outcome
error_is_empty(err_hex) ==
    \/ err_hex \in {<<"0", "x">>, <<"0", "x", "0", "0">>,
                    <<"0", "x", "0", "0", "0", "0">>}
    \/ err_hex = <<"0", "x">>

\* lines 268-278: the line printed for a matched event
success_payload(evt, hash) ==
    [ok |-> error_is_empty(err_hex_of(evt.err)), txHash |-> hex(hash),
     requestId |-> hex(evt.requestId), response |-> evt.response,
     err |-> err_hex_of(evt.err)]

\* mutant of EventInit: the event wait runs on the clock of the last
\* confirmation wait
EventInitSharesClock ==
    /\ pc = "ev_init"
    /\ start_block' = receipt2.blockNumber
    /\ start_time' = start
    /\ pc' = "ev_check"
    /\ UNCHANGED <<config, stage, fees, nonce, tx1, tx2, tx_hash1, tx_hash2,
                   receipt1, receipt2, latest, logs, start, output, now,
                   chain, history>>
    /\ UNCHANGED around

\* lines 227-231
EventInit ==
    /\ pc = "ev_init"
    /\ start_block' = receipt2.blockNumber
    /\ start_time' = now
    /\ pc' = "ev_check"
    /\ UNCHANGED <<config, stage, fees, nonce, tx1, tx2, tx_hash1, tx_hash2,
                   receipt1, receipt2, latest, logs, start, output, now,
                   chain, history>>
    /\ UNCHANGED around

\* mutant of EventCheck: the timeout outcome carries the config hash
EventCheckReportsConfigHash ==
    /\ pc = "ev_check"
    /\ IF timed_out(now, start_time, EVENT_TIMEOUT_S)
       THEN fail([ok |-> FALSE, stage |-> "waitForResponse",
                  txHash |-> hex(tx_hash1),
                  error |-> <<"Timed out waiting for Response event">>])
       ELSE pc' = "ev_block" /\ UNCHANGED output
    /\ UNCHANGED <<config, locals, now, chain, history>>
    /\ UNCHANGED around

\* lines 234-242: the deadline check at the top of each iteration
EventCheck ==
    /\ pc = "ev_check"
    /\ IF timed_out(now, start_time, EVENT_TIMEOUT_S)
       THEN fail([ok |-> FALSE, stage |-> "waitForResponse",
                  txHash |-> hex(tx_hash2),
                  error |-> <<"Timed out waiting for Response event">>])
       ELSE pc' = "ev_block" /\ UNCHANGED output
    /\ UNCHANGED <<config, locals, now, chain, history>>
    /\ UNCHANGED around

\* line 244: latest = w3.eth.block_number, outside every try block
EventBlock ==
    /\ pc = "ev_block"
    /\ \E answer \in {head, NoInt} :
         IF answer = NoInt
         THEN raise_uncaught("ConnectionError") /\ UNCHANGED latest
         ELSE latest' = answer /\ pc' = "ev_logs" /\ UNCHANGED output
    /\ UNCHANGED <<config, stage, fees, nonce, tx1, tx2, tx_hash1, tx_hash2,
                   receipt1, receipt2, start_block, start_time, logs, start,
                   now, chain, history>>
    /\ UNCHANGED around

\* lines 245-255: one log query; a fault of the query counts as no logs.
\* A fault that hides logs the query would have returned is a deviation.
EventLogs ==
    /\ pc = "ev_logs"
    /\ LET filter == log_filter(start_block, latest)
       IN  /\ \E faulted \in BOOLEAN :
                LET cost == IF faulted /\ get_logs(filter) # <<>>
                            THEN 1 ELSE 0
                IN  /\ dev + cost <= MaxDeviations
                    /\ dev' = dev + cost
                    /\ logs' = IF faulted THEN <<>> ELSE get_logs(filter)
                    /\ lastLogQuery' = [filter |-> filter,
                                        faulted |-> faulted]
    /\ pc' = "ev_match"
    /\ UNCHANGED <<config, stage, fees, nonce, tx1, tx2, tx_hash1, tx_hash2,
                   receipt1, receipt2, start_block, start_time, latest, start,
                   output, now, chainId, gasPrice, txCount, head, mempool,
                   receipts, chainLogs, includeAt, minedAt, countReads,
                   priceReads, sendCalls, queryIssuedAt>>
    /\ UNCHANGED around

\* lines 257-281: decode and report the first log, or time.sleep(3).
\* process_log is outside every try block.
EventMatch ==
    /\ pc = "ev_match"
    /\ IF logs # <<>>
       THEN IF ~logs[1].decodable
            THEN raise_uncaught("MismatchedABI") /\ UNCHANGED now
            ELSE /\ stdout' = Append(stdout, success_payload(logs[1], tx_hash2))
                 /\ pc' = "returned"
                 /\ UNCHANGED <<stderr, now>>
       ELSE /\ now' = now + EVENT_SLEEP_S
            /\ pc' = "ev_check"
            /\ UNCHANGED output
    /\ UNCHANGED <<config, locals, chain, history>>
    /\ UNCHANGED around

\* ----------------------------------------------------------- the chain
\* a polling call that takes a while before it is answered
SlowCall ==
    /\ pc \in {"w_query", "ev_block", "ev_logs"}
    /\ dev < MaxDeviations
    /\ dev' = dev + 1
    /\ now' = now + SlowCallSeconds
    /\ UNCHANGED <<config, pc, locals, output, chainId, gasPrice, txCount,
                   head, mempool, receipts, chainLogs, includeAt, minedAt,
                   history>>
    /\ UNCHANGED around

CONSUMER == <<"0x", "consumer">>

\* delays, from the inclusion of the run's last transaction, at which a
\* log is emitted: within the first polls of the event wait, or around
\* its deadline
LogDelays ==
    {d \in 0..(EVENT_TIMEOUT_S + EVENT_SLEEP_S + SlowCallSeconds) :
        \/ d <= EVENT_SLEEP_S + SlowCallSeconds
        \/ d >= EVENT_TIMEOUT_S - EVENT_SLEEP_S}

ErrInputs ==
    {[kind |-> "bytes", val |-> bs] :
        bs \in {<<>>, <<0>>, <<0, 0>>, <<0, 0, 0>>, <<1>>, <<0, 16>>}}

ResponseLog(id, response, err, decodable) ==
    [address |-> CONSUMER, topic0 |-> keccak(RESPONSE_SIGNATURE),
     requestId |-> id, response |-> response, err |-> err,
     decodable |-> decodable]

\* the id the consumer gives to the request of the run's sendRequest
OwnRequestId == "req-A"

\* the Response logs of the run's own request
OwnLogs ==
    {ResponseLog(OwnRequestId, "42", e, TRUE) : e \in ErrInputs}
    \cup {ResponseLog(OwnRequestId, "42",
                      [kind |-> "bytes", val |-> <<>>], FALSE)}

\* logs that have nothing to do with the run's request
StrayLogs ==
    {ResponseLog("req-B", "other", [kind |-> "bytes", val |-> <<>>], TRUE),
     [ResponseLog("req-C", "x", [kind |-> "bytes", val |-> <<>>], TRUE)
        EXCEPT !.address = OTHER_ADDRESS],
     [ResponseLog("req-D", "y", [kind |-> "bytes", val |-> <<>>], TRUE)
        EXCEPT !.topic0 = keccak(OTHER_SIGNATURE)]}

\* the request transaction has been included with success status
RequestSucceeded ==
    \E r \in receipts :
        r.status = 1 /\ r.transactionHash.hashOf.fn = "sendRequest"

\* The pending transaction is included in a new block when its time has
\* come, with success or reverted; the block may move the gas price.
MineTx ==
    /\ MineDue
    /\ \E tx \in mempool, status \in {0, 1}, price \in GasPrices :
         LET cost == IF price = gasPrice THEN 0 ELSE 1
         IN  /\ tx.nonce = txCount
             /\ dev + cost <= MaxDeviations
             /\ dev' = dev + cost
             /\ mempool' = mempool \ {tx}
             /\ receipts' = receipts \cup
                    {[transactionHash |-> TxHash(tx), status |-> status,
                      blockNumber |-> head + 1]}
             /\ gasPrice' = price
    /\ head' = head + 1
    /\ minedAt' = includeAt
    /\ includeAt' = NoInt
    /\ txCount' = txCount + 1
    /\ UNCHANGED <<config, pc, locals, output, now, chainId, chainLogs,
                   history>>
    /\ UNCHANGED around

\* Somebody else sends a transaction from the account; it is included
\* between the run's two transactions.
InjectTx ==
    /\ mempool = {}
    /\ Cardinality(receipts) = 1
    /\ dev < MaxDeviations
    /\ dev' = dev + 1
    /\ txCount' = txCount + 1
    /\ head' = head + 1
    /\ UNCHANGED <<config, pc, locals, output, now, chainId, gasPrice,
                   mempool, receipts, chainLogs, includeAt, minedAt, history>>
    /\ UNCHANGED around

\* A contract emits a log, in the head block or in a new one.  Only the
\* first log, when it is a Response of the consumer emitted after the
\* request succeeded, belongs to the nominal run.
EmitLog ==
    /\ Len(chainLogs) < MaxLogs
    /\ now - minedAt \in LogDelays
    /\ \E l \in OwnLogs \cup StrayLogs, newBlock \in BOOLEAN :
         LET cost == IF /\ chainLogs = <<>>
                        /\ RequestSucceeded
                        /\ l.address = CONSUMER
                        /\ l.topic0 = keccak(RESPONSE_SIGNATURE)
                     THEN 0 ELSE 1
             block == IF newBlock THEN head + 1 ELSE head
         IN  /\ l \in OwnLogs => RequestSucceeded
             /\ dev + cost <= MaxDeviations
             /\ dev' = dev + cost
             /\ chainLogs' = Append(chainLogs,
                                    [blockNumber |-> block,
                                     visibleAt |-> now] @@ l)
             /\ head' = block
    /\ UNCHANGED <<config, pc, locals, output, now, chainId, gasPrice,
                   txCount, mempool, receipts, includeAt, minedAt, history>>
    /\ UNCHANGED around

\* ------------------------------------------------------- specification
Next ==
    \/ Validate \/ ReadChainId \/ LoadSource \/ BuildFees
    \/ ReadNonce \/ SendTx \/ WaitEntry \/ WaitQuery \/ WaitCheck
    \/ CheckStatus
    \/ EventInit \/ EventCheck \/ EventBlock \/ EventLogs \/ EventMatch
    \/ SlowCall \/ MineTx \/ InjectTx \/ EmitLog

Spec == Init /\ [][Next]_vars

\* The interpreter keeps running the poller: a query that can be answered
\* is answered, the deadline check and the sleep after it complete, and
\* the chain includes a transaction whose time has come.
FairSpec ==
    /\ Spec
    /\ WF_vars(WaitQuery) /\ WF_vars(WaitCheck) /\ WF_vars(MineTx)

\* One step of main() itself, whichever statement it is at.
RunStep ==
    \/ Validate \/ ReadChainId \/ LoadSource \/ BuildFees
    \/ ReadNonce \/ SendTx \/ WaitEntry \/ WaitQuery \/ WaitCheck
    \/ CheckStatus
    \/ EventInit \/ EventCheck \/ EventBlock \/ EventLogs \/ EventMatch

\* Every collaborator call returns, with a value or a fault, and time
\* advances: main() always takes its next step, and the chain includes a
\* transaction whose time has come.
LiveSpec ==
    /\ Spec
    /\ WF_vars(RunStep) /\ WF_vars(MineTx)

\* ------------------------------------------ build_fees on its own
\* a run that has passed the startup checks and is about to call
\* build_fees, on a chain with any gas price up to MaxGasPrice
FeesInit ==
    /\ SEPOLIA_RPC_URL = <<"https://rpc">>
    /\ PRIVATE_KEY = <<"0x", "key">>
    /\ CONSUMER_ADDRESS_RAW = CONSUMER
    /\ SUBSCRIPTION_ID_RAW = <<"42">>
    /\ source_exists = TRUE
    /\ pc = "fees"
    /\ chainId = SEPOLIA_CHAIN_ID
    /\ gasPrice \in 0..MaxGasPrice
    /\ dev = 0
    /\ peer = NoPeer
    /\ Fresh
    /\ WebAtRest

FeesNext == BuildFees

FeesSpec == FeesInit /\ [][FeesNext]_vars

\* ----------------------------------------- a caller that gives up
\* The caller of main() decides to abandon the run.  main() takes argv
\* only and neither loop reads anything of the caller, so the decision
\* changes nothing the run looks at.
Cancel ==
    /\ ~cancelled
    /\ pc \notin Terminal
    /\ cancelled' = TRUE
    /\ UNCHANGED <<config, pc, locals, output, now, chain, history, peer, web>>

CancelNext == Next \/ Cancel

CancelSpec == Init /\ [][CancelNext]_vars

\* ------------------------------------- two runs with one credential
\* The other run executes the same main(): line 168, then per stage lines
\* 172/200 (nonce read), 173-182/201-210 (build, sign, broadcast) and
\* 183-192/211-220 (receipt and status).  Nothing in main() or send_tx
\* coordinates it with the first run; only the chain is shared.
PeerStart == [pc |-> "fees", stage |-> "setSource", fees |-> None,
              nonce |-> NoInt, sent |-> <<>>]

PeerBuildFees ==
    /\ peer.pc = "fees"
    /\ peer' = [peer EXCEPT !.pc = "nonce", !.fees = build_fees(gasPrice)]
    /\ UNCHANGED <<config, pc, locals, output, now, chain, history,
                   cancelled, web>>

PeerReadNonce ==
    /\ peer.pc = "nonce"
    /\ peer' = [peer EXCEPT !.pc = "send",
                            !.nonce = fetched_nonce(txCount, peer.nonce)]
    /\ UNCHANGED <<config, pc, locals, output, now, chain, history,
                   cancelled, web>>

PeerSendTx ==
    /\ peer.pc = "send"
    /\ LET tx == build_transaction(peer.stage, peer.nonce, peer.fees)
       IN \E accepted \in BOOLEAN :
            /\ accepted => tx.nonce >= txCount /\ tx \notin mempool
            /\ peer' = [peer EXCEPT
                           !.pc = IF accepted THEN "wait" ELSE "done",
                           !.sent = Append(peer.sent, tx)]
            /\ mempool' = IF accepted THEN mempool \cup {tx} ELSE mempool
    /\ UNCHANGED <<config, pc, locals, output, now, chainId, gasPrice,
                   txCount, head, receipts, chainLogs, includeAt, minedAt,
                   dev, history, cancelled, web>>

\* the other run obtains its receipt, or gives up waiting for it
PeerConfirm ==
    /\ peer.pc = "wait"
    /\ LET h == TxHash(peer.sent[Len(peer.sent)])
           found == {r \in receipts : r.transactionHash = h}
       IN  \/ \E r \in found :
                peer' = IF receipt_succeeded(r) /\ peer.stage = "setSource"
                        THEN [peer EXCEPT !.pc = "nonce",
                                          !.stage = "sendRequest"]
                        ELSE [peer EXCEPT !.pc = "done"]
           \/ found = {} /\ peer' = [peer EXCEPT !.pc = "done"]
    /\ UNCHANGED <<config, pc, locals, output, now, chain, history,
                   cancelled, web>>

\* the chain includes a pending transaction of the other run
IncludePeerTx ==
    /\ \E tx \in mempool, status \in {0, 1} :
         /\ \E i \in DOMAIN peer.sent : peer.sent[i] = tx
         /\ tx.nonce = txCount
         /\ mempool' = mempool \ {tx}
         /\ receipts' = receipts \cup
                {[transactionHash |-> TxHash(tx), status |-> status,
                  blockNumber |-> head + 1]}
    /\ head' = head + 1
    /\ txCount' = txCount + 1
    /\ UNCHANGED <<config, pc, locals, output, now, chainId, gasPrice,
                   chainLogs, includeAt, minedAt, dev, history, around>>

\* both runs start with a valid configuration on Sepolia; toward the
\* first run the chain keeps to the nominal behaviour
TwoRunsInit ==
    /\ SEPOLIA_RPC_URL = <<"https://rpc">>
    /\ PRIVATE_KEY = <<"0x", "key">>
    /\ CONSUMER_ADDRESS_RAW = CONSUMER
    /\ SUBSCRIPTION_ID_RAW = <<"42">>
    /\ source_exists = TRUE
    /\ pc = "main"
    /\ chainId = SEPOLIA_CHAIN_ID
    /\ gasPrice = NominalGasPrice
    /\ dev = MaxDeviations
    /\ peer = PeerStart
    /\ Fresh
    /\ WebAtRest

TwoRunsNext ==
    \/ Validate \/ ReadChainId \/ LoadSource \/ BuildFees
    \/ ReadNonce \/ SendTx \/ WaitEntry \/ WaitQuery \/ WaitCheck
    \/ CheckStatus
    \/ EventInit \/ EventCheck \/ EventBlock \/ EventLogs \/ EventMatch
    \/ MineTx \/ EmitLog
    \/ PeerBuildFees \/ PeerReadNonce \/ PeerSendTx \/ PeerConfirm
    \/ IncludePeerTx

TwoRunsSpec == TwoRunsInit /\ [][TwoRunsNext]_vars

\* ------------------------------------------------------------- claims
\* the only line printed, when the run has printed one
Outcome == stdout[1]
FailedAt(name) ==
    /\ pc = "SystemExit"
    /\ Len(stdout) = 1
    /\ "stage" \in DOMAIN Outcome
    /\ Outcome.stage = name
Reverted(r) == r # None /\ r.status # 1
Succeeded(r) == r # None /\ r.status = 1

\* C1: once the config receipt has a status other than success, the run is
\* at the status check or has ended with the failure outcome of stage
\* setSource (hash and status of the config transaction), and it has read
\* the nonce once, built and sent no request transaction, queried no logs.
C1_RevertedConfigHalts ==
    Reverted(receipt1) =>
        /\ pc \in {"status", "SystemExit"}
        /\ pc = "status" => stage = "setSource" /\ stdout = <<>>
        /\ pc = "SystemExit" =>
               stdout = <<[ok |-> FALSE, stage |-> "setSource",
                           txHash |-> hex(tx_hash1),
                           status |-> receipt1.status]>>
        /\ stderr = None
        /\ Len(countReads) = 1
        /\ tx2 = None /\ tx_hash2 = None
        /\ Len(sendCalls) = 1
        /\ lastLogQuery = None

C1_Witness ==
    /\ Reverted(receipt1)
    /\ FailedAt("setSource")
    /\ "status" \in DOMAIN Outcome

\* C2: the stages run in order.  The request transaction is built and sent
\* only while a success receipt of the config transaction is held; logs are
\* queried only while a success receipt of the request transaction is held;
\* a reverted request ends the run in FAILED(sendRequest) without a log
\* query; at most one broadcast transaction of the run is unconfirmed.
C2_StagesInOrder ==
    /\ Len(sendCalls) <= 2
    /\ \A i \in DOMAIN sendCalls :
         /\ sendCalls[i].tx.fn = IF i = 1 THEN "setSource" ELSE "sendRequest"
         /\ sendCalls[i].held = i - 1
    /\ tx2 # None => Succeeded(receipt1)
    /\ receipt2 # None => Succeeded(receipt1) /\ tx_hash2 # None
    /\ lastLogQuery # None => Succeeded(receipt2)
    /\ start_time # NoInt => Succeeded(receipt2)
    /\ Reverted(receipt2) =>
         /\ lastLogQuery = None
         /\ pc \in {"status", "SystemExit"}
         /\ pc = "SystemExit" => FailedAt("sendRequest")
    /\ Cardinality({i \in DOMAIN sendCalls : sendCalls[i].accepted})
           - Held <= 1
    /\ Cardinality(mempool) <= 1

C2_Witness ==
    /\ pc = "returned"
    /\ Len(sendCalls) = 2
    /\ lastLogQuery # None

\* C3: no fault of a collaborator call escapes main(): whichever call
\* faults, no exception is left uncaught.
C3_NoCollaboratorFaultEscapes ==
    stderr # None => stderr.exception \notin {"ConnectionError", "MismatchedABI"}

\* C4 as claimed: a receipt is returned only by a query made no later than
\* timeout_s after loop entry.
C4_ReturnedOnlyWithinWindow ==
    pc = "status" => queryIssuedAt - start <= RECEIPT_TIMEOUT_S

TimedOutWaiting ==
    /\ pc = "SystemExit"
    /\ Len(stdout) = 1
    /\ "error" \in DOMAIN Outcome
    /\ Outcome.error[1] = "Timed out waiting for tx receipt: "

\* C4 amended: wait_for_receipt returns a receipt exactly when one of its
\* queries reports one.  A query is made at loop entry or one sleep after a
\* deadline check that found elapsed <= timeout_s, so the last query may be
\* made up to one sleep after the window and a receipt it reports is still
\* returned.  TimeoutError is raised only after a query answered absent
\* with more than timeout_s elapsed, and names the transaction waited for.
C4_ReturnedWheneverAQueryReports ==
    /\ pc \in {"w_query", "w_check", "status"} =>
         \/ queryIssuedAt = start
         \/ (queryIssuedAt - RECEIPT_SLEEP_S) - start <= RECEIPT_TIMEOUT_S
    /\ pc = "w_check" => \A r \in receipts : r.transactionHash # tx_hash
    /\ pc = "status" =>
         /\ receipt \in receipts
         /\ receipt.transactionHash = tx_hash
    /\ TimedOutWaiting =>
         /\ now - start > RECEIPT_TIMEOUT_S
         /\ \A r \in receipts : r.transactionHash # tx_hash
         /\ receipt = None
         /\ Outcome = [ok |-> FALSE, stage |-> stage,
                       error |-> <<"Timed out waiting for tx receipt: ",
                                   hex(tx_hash)>>]

C4_Witness ==
    /\ pc = "status"
    /\ queryIssuedAt - start > RECEIPT_TIMEOUT_S
    /\ receipt # None

\* C5: once a log query has returned a log of the consumer with topic0 of
\* Response(bytes32,string,bytes), the run ends in DONE at that iteration,
\* reporting the hash of the request transaction and the requestId,
\* response and error classification of that log.
C5_MatchingLogEndsInDone ==
    logs # <<>> =>
        /\ pc \in {"ev_match", "returned"}
        /\ pc = "returned" =>
             /\ Len(stdout) = 1
             /\ Outcome.txHash = hex(TxHash(tx2))
             /\ Outcome.requestId = hex(logs[1].requestId)
             /\ Outcome.response = logs[1].response
             /\ logs[1].err.val = <<>> => Outcome.ok

\* the matching logs of the blocks from the anchor to the block last read
MatchingVisible ==
    SelectSeq(chainLogs,
              LAMBDA l : /\ l.address = CONSUMER
                         /\ l.topic0 = keccak(RESPONSE_SIGNATURE)
                         /\ l.blockNumber >= receipt2.blockNumber
                         /\ l.blockNumber <= latest)

\* What holds of the event wait apart from the escaping faults: the wait
\* goes on only while every query came back empty, a query returns only
\* logs of the consumer with the Response topic from the anchor block on,
\* and DONE reports the first of them.
EventWaitReportsFirstMatch ==
    /\ pc \in {"ev_check", "ev_block", "ev_logs"} => logs = <<>>
    /\ \A i \in DOMAIN logs :
         /\ logs[i].address = CONSUMER
         /\ logs[i].topic0 = keccak(RESPONSE_SIGNATURE)
         /\ logs[i].blockNumber >= receipt2.blockNumber
    /\ logs # <<>> => logs[1] = MatchingVisible[1]
    /\ pc = "returned" =>
         /\ Outcome.txHash = hex(TxHash(tx2))
         /\ Outcome.requestId = hex(logs[1].requestId)
         /\ Outcome.response = logs[1].response
         /\ logs[1].err.val = <<>> => Outcome.ok

EventWaitReportsFirstMatch_Witness ==
    /\ pc = "returned"
    /\ Outcome.ok
    /\ now - start_time >= EVENT_SLEEP_S
    /\ logs[1].blockNumber > start_block
    /\ Len(chainLogs) > 1

\* C6: a run whose request transaction confirmed with success and whose
\* log queries returned no matching log ends with the failure outcome of
\* stage waitForResponse carrying the hash of the request transaction.
C6_NoLogEndsInWaitForResponse ==
    (start_time # NoInt /\ pc \in Terminal /\ logs = <<>>) =>
        /\ FailedAt("waitForResponse")
        /\ Outcome.txHash = hex(TxHash(tx2))
        /\ Outcome.txHash # hex(tx_hash1)

\* What holds of the timeout of the event wait: it is reported only after
\* more than the bound has elapsed with every query empty, as stage
\* waitForResponse with the hash of the request transaction.
EventTimeoutCarriesRequestHash ==
    (start_time # NoInt /\ pc = "SystemExit") =>
        /\ stdout = <<[ok |-> FALSE, stage |-> "waitForResponse",
                       txHash |-> hex(TxHash(tx2)),
                       error |-> <<"Timed out waiting for Response event">>]>>
        /\ tx2.fn = "sendRequest"
        /\ Outcome.txHash # hex(tx_hash1)
        /\ now - start_time > EVENT_TIMEOUT_S
        /\ logs = <<>>
        /\ Succeeded(receipt2)

EventTimeoutCarriesRequestHash_Witness ==
    /\ FailedAt("waitForResponse")
    /\ now - start_time > EVENT_TIMEOUT_S

\* C7: the outcome of a matched Response event has exactly the keys ok,
\* txHash, requestId, response and err (no stage key, unlike the timeout
\* outcome); err is the error payload as hex, and ok is true exactly when
\* err is "0x", "0x00" or "0x0000".
C7_OkIffErrorHexInAllowList ==
    pc = "returned" =>
        /\ Len(stdout) = 1
        /\ DOMAIN Outcome = {"ok", "txHash", "requestId", "response", "err"}
        /\ Outcome.err = <<"0", "x">> \o BytesHex(logs[1].err.val)
        /\ Outcome.ok <=> Outcome.err \in {<<"0", "x">>,
                                           <<"0", "x", "0", "0">>,
                                           <<"0", "x", "0", "0", "0", "0">>}
        /\ Outcome.ok <=> logs[1].err.val \in {<<>>, <<0>>, <<0, 0>>}
        /\ Outcome.txHash = hex(tx_hash2)
        /\ Outcome.requestId = hex(logs[1].requestId)
        /\ Outcome.response = logs[1].response

C7_Witness ==
    /\ pc = "returned"
    /\ ~Outcome.ok
    /\ Outcome.err = <<"0", "x", "0", "1">>

AllZero(bs) == \A i \in DOMAIN bs : bs[i] = 0

\* C8 as claimed: a matched event whose error payload is empty or all
\* zero bytes, whatever its length, is reported with ok = true.
C8_AllZeroPayloadIsSuccess ==
    (pc = "returned" /\ AllZero(logs[1].err.val)) => Outcome.ok

\* C8 amended: a matched event whose error payload is empty or consists of
\* one or two zero bytes is reported with ok = true; an all-zero payload
\* of three or more bytes is reported with ok = false.
C8_AtMostTwoZeroBytesIsSuccess ==
    (pc = "returned" /\ AllZero(logs[1].err.val)) =>
        (Outcome.ok <=> Len(logs[1].err.val) <= 2)

C8_Witness ==
    /\ pc = "returned"
    /\ logs[1].err.val = <<0, 0, 0>>
    /\ ~Outcome.ok

\* C9: the nonce of the request transaction is the answer of a
\* transactionCount read made while the config receipt was held; it is the
\* account's count at that read, whatever the first nonce was.
C9_SecondNonceRefetched ==
    /\ tx1 # None => /\ Len(countReads) >= 1
                     /\ tx1.nonce = countReads[1].value
    /\ tx2 # None => /\ Len(countReads) = 2
                     /\ countReads[2].held = 1
                     /\ tx2.nonce = countReads[2].value
                     /\ tx2.nonce > tx1.nonce

C9_Witness ==
    /\ tx2 # None
    /\ tx2.nonce > tx1.nonce + 1
    /\ tx_hash2 # None

\* C10: the fee cap of the request transaction is derived from a gasPrice
\* read made after the config transaction was confirmed.
C10_SecondFeeFromFreshPrice ==
    tx2 # None =>
        \E i \in DOMAIN priceReads :
            /\ priceReads[i].held >= 1
            /\ tx2.maxFeePerGas = build_fees(priceReads[i].value).maxFeePerGas

\* C11: build_fees never raises.  With a readable price p >= 0 it returns
\* a priority fee of 1 gwei and a fee cap of 2*p + 1 gwei; with an
\* unreadable price a priority fee of 1 gwei and a cap of 2*10 gwei + 1
\* gwei; the cap is never below the priority fee.
C11_FeeQuote ==
    /\ pc \in {"fees", "nonce"}
    /\ stderr = None /\ stdout = <<>>
    /\ pc = "nonce" =>
         LET p == priceReads[1].value
             gwei == WeiPerGwei
         IN  /\ Len(priceReads) = 1
             /\ p # NoInt => p = gasPrice /\ p >= 0
             /\ DOMAIN fees = {"maxFeePerGas", "maxPriorityFeePerGas"}
             /\ fees.maxPriorityFeePerGas = 1 * gwei
             /\ p # NoInt => fees.maxFeePerGas = 2 * p + 1 * gwei
             /\ p = NoInt => fees.maxFeePerGas = 2 * (10 * gwei) + 1 * gwei
             /\ fees.maxFeePerGas >= fees.maxPriorityFeePerGas

C11_Witness ==
    /\ pc = "nonce"
    /\ priceReads[1].value = NoInt
    /\ gasPrice = 0
    /\ fees.maxFeePerGas = 21 * WeiPerGwei

\* C12: two runs that use the same credential concurrently never
\* broadcast two different transactions that carry the same nonce.
C12_NoNonceCollision ==
    \A i \in DOMAIN sendCalls, j \in DOMAIN peer.sent :
        sendCalls[i].tx # peer.sent[j] =>
            sendCalls[i].tx.nonce # peer.sent[j].nonce

\* C13: the event a success outcome reports is the Response to the run's
\* own request, also when the consumer logs Responses to other requests
\* in or after the block of the request transaction.
C13_ReportsOwnResponse ==
    pc = "returned" =>
        /\ Outcome.requestId = hex(OwnRequestId)
        /\ \E l \in OwnLogs : Outcome.response = l.response

MissingConfig ==
    \/ SEPOLIA_RPC_URL = <<>> \/ PRIVATE_KEY = <<>>
    \/ CONSUMER_ADDRESS_RAW = <<>> \/ SUBSCRIPTION_ID_RAW = <<>>

NothingSent ==
    /\ countReads = <<>> /\ sendCalls = <<>>
    /\ mempool = {} /\ receipts = {}
    /\ tx1 = None /\ tx_hash1 = None

StartupMessages ==
    {"Missing SEPOLIA_RPC_URL in .env", "Missing PRIVATE_KEY in .env",
     "Missing CONSUMER_ADDRESS in .env", "Missing SUBSCRIPTION_ID in .env",
     "RPC not responding", "Unexpected chain_id"}

\* C14: a run whose startup validation fails reads no nonce and broadcasts
\* nothing.  With the URL, the key, the consumer address or the
\* subscription id missing it ends in a failure outcome at the first
\* step; with a chain id that is unreadable or not 11155111 it ends in a
\* failure outcome at the chain id check; a run that has read a nonce or
\* sent a transaction has a complete configuration on chain 11155111.
C14_StartupFailureSendsNothing ==
    /\ MissingConfig =>
         /\ pc \in {"main", "SystemExit"}
         /\ NothingSent
         /\ pc = "SystemExit" =>
              /\ Len(stdout) = 1 /\ ~Outcome.ok
              /\ Outcome.error[1] \in StartupMessages
    /\ chainId # SEPOLIA_CHAIN_ID =>
         /\ pc \in {"main", "chain_id", "SystemExit", "uncaught"}
         /\ NothingSent
         /\ (pc = "SystemExit" /\ ~MissingConfig) =>
              /\ Len(stdout) = 1 /\ ~Outcome.ok
              /\ Outcome.error[1] \in {"RPC not responding",
                                        "Unexpected chain_id"}
    /\ (/\ pc = "SystemExit"
        /\ "error" \in DOMAIN Outcome
        /\ Outcome.error[1] \in StartupMessages) => NothingSent
    /\ ~NothingSent => ~MissingConfig /\ chainId = SEPOLIA_CHAIN_ID

C14_Witness ==
    /\ pc = "SystemExit"
    /\ chainId # SEPOLIA_CHAIN_ID
    /\ Outcome.error = <<"Unexpected chain_id", chainId>>
    /\ NothingSent

\* C15: a run that has ended has printed exactly one outcome, and an
\* outcome that reports a failure names the stage that failed.
C15_OneOutcomeNamingTheStage ==
    pc \in Terminal =>
        /\ Len(stdout) = 1
        /\ "ok" \in DOMAIN Outcome
        /\ ~Outcome.ok => "stage" \in DOMAIN Outcome

InReceiptWait == pc \in {"w_query", "w_check"}

\* C16: each wait runs on its own clock.  The clock of a confirmation
\* wait starts when that wait is entered, right after the broadcast it
\* confirms, and the wait issues no query later than one sleep after 300
\* seconds on it; the clock of the event wait starts when the event wait
\* is entered, after the last receipt query, and the event timeout is
\* reported only after more than 600 seconds on it, however long the
\* confirmations took.
C16_IndependentClocks ==
    /\ (InReceiptWait \/ pc = "status") =>
         /\ start = sendCalls[Len(sendCalls)].at
         /\ queryIssuedAt - start <= RECEIPT_TIMEOUT_S + RECEIPT_SLEEP_S
    /\ TimedOutWaiting =>
         /\ start = sendCalls[Len(sendCalls)].at
         /\ now - start > RECEIPT_TIMEOUT_S
    /\ start_time # NoInt =>
         /\ start_time >= queryIssuedAt
         /\ queryIssuedAt >= start
         /\ start >= sendCalls[2].at
         /\ sendCalls[2].at >= sendCalls[1].at
    /\ pc \in {"ev_block", "ev_logs", "ev_match"} =>
         now - start_time <= EVENT_TIMEOUT_S + dev * SlowCallSeconds
    /\ FailedAt("waitForResponse") => now - start_time > EVENT_TIMEOUT_S

C16_Witness ==
    /\ FailedAt("waitForResponse")
    /\ start_time >= RECEIPT_TIMEOUT_S
    /\ now - start_time <= EVENT_TIMEOUT_S + EVENT_SLEEP_S

\* C17: in wait_for_receipt an absent answer (None, TransactionNotFound)
\* is never an error.  No outcome reports one; after an absent answer the
\* poller, unless more than timeout_s has elapsed, sleeps 2 seconds and
\* queries again, printing nothing; and the wait fails only with the
\* timeout or with another fault of the query.
C17_AbsentIsNotAnError ==
    /\ [](pc = "SystemExit" /\ "error" \in DOMAIN Outcome
            => Outcome.error[1] \notin {"TransactionNotFound", "None"})
    /\ [][(pc = "w_check" /\ pc' # "w_check") =>
            IF now - start > RECEIPT_TIMEOUT_S
            THEN /\ pc' = "SystemExit"
                 /\ stdout'[1].error[1] = "Timed out waiting for tx receipt: "
            ELSE /\ pc' = "w_query"
                 /\ now' = now + RECEIPT_SLEEP_S
                 /\ UNCHANGED <<stdout, stderr, receipt1, receipt2>>]_vars
    /\ [][(InReceiptWait /\ pc' \notin {"w_query", "w_check", "status"}) =>
            /\ pc' = "SystemExit"
            /\ stdout'[1].stage = stage
            /\ stdout'[1].error[1] \in {"Timed out waiting for tx receipt: ",
                                         "ConnectionError"}]_vars

C17_Witness ==
    /\ pc = "w_query"
    /\ queryIssuedAt - start = RECEIPT_TIMEOUT_S
    /\ receipt = None /\ stdout = <<>>

\* C18 as claimed: the polling loop of wait_for_receipt is left only with
\* a receipt or with more than timeout_s elapsed since loop entry.
C18_EndsOnlyByReceiptOrTimeout ==
    [][(InReceiptWait /\ ~InReceiptWait') =>
          \/ pc' = "status"
          \/ now - start > RECEIPT_TIMEOUT_S]_vars

\* C18 amended: the polling loop is left in one of three ways: a receipt
\* an answer reported is returned, TimeoutError after more than timeout_s
\* since loop entry, or a fault of the query other than not-found, which
\* propagates; and when every query is answered and time advances the
\* loop is left.
C18_EndsThreeWaysAndEnds ==
    /\ [][(InReceiptWait /\ ~InReceiptWait') =>
            \/ /\ pc' = "status"
               /\ receipt' \in receipts
               /\ receipt'.transactionHash = tx_hash
            \/ /\ pc' = "SystemExit"
               /\ now - start > RECEIPT_TIMEOUT_S
               /\ stdout'[1].error[1] = "Timed out waiting for tx receipt: "
            \/ /\ pc' = "SystemExit"
               /\ stdout'[1].error = <<"ConnectionError">>]_vars
    /\ (InReceiptWait ~> ~InReceiptWait)

C18_Witness ==
    /\ pc = "SystemExit"
    /\ "error" \in DOMAIN Outcome
    /\ Outcome.error[1] = "ConnectionError"
    /\ now - start <= RECEIPT_TIMEOUT_S
    /\ tx_hash # None /\ receipt = None

\* C19: once the caller has cancelled, neither polling loop begins another
\* iteration: the run stops at the iteration boundary.
C19_CancelStopsAtNextBoundary ==
    [][cancelled =>
          /\ ~(pc = "w_check" /\ pc' = "w_query")
          /\ ~(pc = "ev_match" /\ pc' = "ev_check")]_vars

\* the transaction of the run's latest sendRawTransaction call
LastBroadcast == sendCalls[Len(sendCalls)].tx

\* C20: an outcome that reports a wait over its bound carries the hash of
\* the last transaction the run broadcast: the timeout of a confirmation
\* wait in the text of its error, after the message, and the timeout of
\* the event wait as its txHash.
C20_TimeoutCarriesLastHash ==
    /\ TimedOutWaiting =>
         /\ sendCalls[Len(sendCalls)].accepted
         /\ Outcome.stage = LastBroadcast.fn
         /\ Outcome.error = <<"Timed out waiting for tx receipt: ",
                              hex(TxHash(LastBroadcast))>>
    /\ FailedAt("waitForResponse") =>
         /\ Len(sendCalls) = 2
         /\ LastBroadcast.fn = "sendRequest"
         /\ Outcome.txHash = hex(TxHash(LastBroadcast))

C20_Witness ==
    /\ TimedOutWaiting
    /\ Len(sendCalls) = 2
    /\ Outcome.stage = "sendRequest"

InEventWait == pc \in {"ev_check", "ev_block", "ev_logs", "ev_match"}

\* C21: a fault of a log query never ends the run: after a faulted query
\* the run goes on polling until a later query is made, or ends by the
\* timeout of the event wait.
C21_LogFaultNeverEndsRun ==
    (lastLogQuery # None /\ lastLogQuery.faulted) =>
        InEventWait \/ FailedAt("waitForResponse")

\* What holds of a faulted log query itself: it counts as an empty
\* result, prints nothing, and is followed by the sleep and the deadline
\* check of the next iteration.
FaultedLogQueryCountsAsEmpty ==
    /\ [][(pc = "ev_logs" /\ pc' # pc /\ lastLogQuery'.faulted) =>
            /\ logs' = <<>> /\ pc' = "ev_match"
            /\ UNCHANGED <<stdout, stderr>>]_vars
    /\ [][(pc = "ev_match" /\ pc' # pc /\ lastLogQuery.faulted) =>
            /\ pc' = "ev_check" /\ now' = now + EVENT_SLEEP_S
            /\ UNCHANGED <<stdout, stderr>>]_vars

\* C22: every log query uses as fromBlock the block number of the receipt
\* of the request transaction, fixed when the event wait begins and not
\* the block of the config transaction, as toBlock the block number read
\* in the same iteration, and as filter the consumer address with the
\* topic0 of Response(bytes32,string,bytes).
C22_LogQueryRange ==
    /\ [](start_block # NoInt =>
            /\ start_block = receipt2.blockNumber
            /\ receipt2.transactionHash = tx_hash2
            /\ tx2.fn = "sendRequest"
            /\ start_block # receipt1.blockNumber)
    /\ [][start_block # NoInt => start_block' = start_block]_vars
    /\ [][(pc = "ev_block" /\ pc' = "ev_logs") => latest' = head]_vars
    /\ [][(pc = "ev_logs" /\ pc' = "ev_match") =>
            /\ latest' = latest
            /\ lastLogQuery'.filter =
                  [fromBlock |-> receipt2.blockNumber, toBlock |-> latest,
                   address |-> CONSUMER,
                   topics |-> <<keccak("Response(bytes32,string,bytes)")>>]
          ]_vars
    /\ [](lastLogQuery # None =>
            /\ lastLogQuery.filter.fromBlock = receipt2.blockNumber
            /\ lastLogQuery.filter.toBlock >= receipt2.blockNumber
            /\ lastLogQuery.filter.toBlock <= head)

C22_Witness ==
    /\ lastLogQuery # None
    /\ lastLogQuery.filter.toBlock > lastLogQuery.filter.fromBlock
    /\ lastLogQuery.filter.fromBlock > receipt1.blockNumber + 1

\* C23: a run never re-broadcasts: send_raw_transaction is called at most
\* once per stage and at most twice per run, and when the endpoint refuses
\* a raw transaction the run ends in FAILED for that stage, having got no
\* hash to poll a receipt for and entering no later stage.
C23_NoRebroadcast ==
    /\ Len(sendCalls) <= 2
    /\ \A i, j \in 1..Len(sendCalls) :
          i # j => sendCalls[i].tx.fn # sendCalls[j].tx.fn
    /\ \A i \in 1..Len(sendCalls) :
          ~sendCalls[i].accepted =>
              /\ i = Len(sendCalls)
              /\ FailedAt(sendCalls[i].tx.fn)
              /\ lastLogQuery = None /\ start_block = NoInt
              /\ IF sendCalls[i].tx.fn = "setSource"
                 THEN /\ tx_hash1 = None /\ receipt1 = None
                      /\ queryIssuedAt = NoInt
                      /\ tx2 = None /\ Len(countReads) = 1
                 ELSE /\ tx_hash2 = None /\ receipt2 = None
                      /\ queryIssuedAt <= sendCalls[i].at

C23_Witness ==
    /\ Len(sendCalls) = 2
    /\ ~sendCalls[2].accepted
    /\ FailedAt("sendRequest")
    /\ Succeeded(receipt1)
    /\ queryIssuedAt # NoInt

\* C24: terminal states are absorbing: a run prints at most one outcome
\* line, and once it has printed one it makes no further call and changes
\* nothing of its own state.
C24_TerminalIsAbsorbing ==
    /\ [](Len(stdout) <= 1)
    /\ [](stdout # <<>> => pc \in {"returned", "SystemExit"})
    /\ [][stdout # <<>> =>
            UNCHANGED <<pc, locals, output, history, config>>]_vars

C24_Witness ==
    /\ pc = "returned"
    /\ Len(stdout) = 1
    /\ Len(chainLogs) > Len(logs)
    /\ head > latest

\* C25: every run terminates in an outcome: whatever the endpoint
\* answers, a run that has read its configuration and starts the workflow
\* (INIT) eventually reaches DONE (the event is printed and main returns)
\* or a FAILED state (a failure is printed and the run exits).
C25_EndsInDoneOrFailed ==
    (pc = "chain_id") ~>
        (Len(stdout) = 1 /\ pc \in {"returned", "SystemExit"})

\* What holds of termination: every run stops, in DONE, in FAILED or on an
\* exception that no handler catches.
RunStops == <>(pc \in Terminal)

\* a log the wait is for, in a block at or after the anchor, that became
\* visible t seconds after the event wait began
MatchingLogAt(t) ==
    \E i \in 1..Len(chainLogs) :
        /\ chainLogs[i].address = CONSUMER
        /\ chainLogs[i].topic0 = keccak(RESPONSE_SIGNATURE)
        /\ chainLogs[i].blockNumber >= start_block
        /\ chainLogs[i].visibleAt - start_time = t

\* C26: when a matching log, in a block at or after the anchor block,
\* becomes visible strictly before the 600 seconds of the event wait have
\* elapsed, the run does not end in FAILED("waitForResponse").
C26_VisibleBeforeBoundIsReported ==
    FailedAt("waitForResponse") =>
        ~(\E t \in 0..(EVENT_TIMEOUT_S - 1) : MatchingLogAt(t))

\* ======================================================================
\* tech/app/hashi.py: the listings store
\* ======================================================================
MaxSubmissions == 2

\* no run of the scheduler is in progress
SchedulerIdle ==
    /\ SEPOLIA_RPC_URL = <<"https://rpc">>
    /\ PRIVATE_KEY = <<"0x", "key">>
    /\ CONSUMER_ADDRESS_RAW = CONSUMER
    /\ SUBSCRIPTION_ID_RAW = <<"42">>
    /\ source_exists = TRUE
    /\ pc = "main"
    /\ chainId = SEPOLIA_CHAIN_ID
    /\ gasPrice = NominalGasPrice
    /\ dev = 0
    /\ peer = NoPeer
    /\ Fresh

scheduler == <<config, pc, locals, output, now, chain, history, peer,
               cancelled>>

ALLOWED_STATUSES == {"pending", "approved", "rejected"}

\* the file at DB_PATH holding a JSON list
list_file(data) == [kind |-> "list", data |-> data]

\* load_db(): the list in the file; a missing file and a JSON value that
\* is not a list are replaced by an empty list, a file that is not JSON is
\* read as an empty list and left as it is
load_db(file) ==
    IF file.kind = "missing"
    THEN [data |-> <<>>, file |-> list_file(<<>>)]
    ELSE IF file.kind = "invalid"
    THEN [data |-> <<>>, file |-> file]
    ELSE IF file.kind # "list"
    THEN [data |-> <<>>, file |-> list_file(<<>>)]
    ELSE [data |-> file.data, file |-> file]

\* next_id(issuers): one more than the largest id, 1 for an empty list
next_id(issuers) ==
    LET ids == {issuers[i].id : i \in 1..Len(issuers)} \cup {0}
    IN  (CHOOSE m \in ids : \A n \in ids : n <= m) + 1

\* the fields of the form the model keeps, each a sequence, empty when the
\* field was left out; of a listing it keeps id, company_name and status,
\* of a response nothing but what it leaves in the store
required_fields == {"company_name", "harvest_date", "contact_email"}

HarvestDates ==
    {<<2024, "-", 5, "-", 1>>, <<1, "/", 5, "/", 2024>>,
     <<1, "-", 5, "-", 2024>>, <<>>}

Forms(n) ==
    {[company_name |-> <<"company", n>>, harvest_date |-> d,
      contact_email |-> e] :
        d \in HarvestDates, e \in {<<"grower@example.jp">>, <<>>}}

\* lines 122-129: strptime with %Y-%m-%d, then with %d/%m/%Y
valid_date(d) ==
    /\ Len(d) = 5
    /\ \/ /\ d[2] = "-" /\ d[4] = "-"
          /\ d[1] \in 1..9999 /\ d[3] \in 1..12 /\ d[5] \in 1..31
       \/ /\ d[2] = "/" /\ d[4] = "/"
          /\ d[1] \in 1..31 /\ d[3] \in 1..12 /\ d[5] \in 1..9999

Idle == [pc |-> "idle"]

\* the stores a run of the server may find: no file, a file that is not
\* JSON, a JSON object, an empty list
InitialStores ==
    {[kind |-> k, data |-> <<>>] : k \in {"missing", "invalid", "object"}}
    \cup {list_file(<<>>)}

\* lines 101-133: a POST to /onboard loads the store and checks the form
OnboardPost(h) ==
    /\ handler[h].pc = "idle"
    /\ submitted < MaxSubmissions
    /\ \E form \in Forms(submitted + 1) :
         LET loaded == load_db(db)
             missing == {f \in required_fields : Len(form[f]) = 0}
         IN  /\ db' = loaded.file
             /\ IF missing # {}
                THEN UNCHANGED <<handler, submitted>>
                ELSE IF ~valid_date(form.harvest_date)
                THEN UNCHANGED <<handler, submitted>>
                ELSE /\ handler' = [handler EXCEPT ![h] =
                                      [pc |-> "onboard", form |-> form,
                                       issuers |-> loaded.data]]
                     /\ submitted' = submitted + 1
    /\ UNCHANGED <<confirmed, oracle, scheduler>>

\* lines 135-155: the new listing is appended to the list that was loaded
\* and the list is written back
OnboardSave(h) ==
    /\ handler[h].pc = "onboard"
    /\ LET issuers == handler[h].issuers
           form == handler[h].form
           new_issuer == [id |-> next_id(issuers),
                          company_name |-> form.company_name,
                          status |-> "pending"]
       IN  /\ db' = list_file(Append(issuers, new_issuer))
           /\ confirmed' = confirmed \cup {form.company_name}
    /\ handler' = [handler EXCEPT ![h] = Idle]
    /\ UNCHANGED <<submitted, oracle, scheduler>>

ReviewIds == 1..(MaxSubmissions + 2)
ReviewActions == {"approve", "reject", "archive"}

\* mutant of review_status: an unknown action is taken for the new status
review_status_unchecked(status, action) ==
    IF action = "approve" THEN "approved"
    ELSE IF action = "reject" THEN "rejected"
    ELSE action

\* lines 202-215: the status after a review POST
review_status(status, action) ==
    LET decided == IF action = "approve" THEN "approved"
                   ELSE IF action = "reject" THEN "rejected"
                   ELSE status
    IN  IF decided \notin ALLOWED_STATUSES THEN "pending" ELSE decided

\* lines 192-199: find_issuer loads the store and looks the listing up;
\* a GET renders the listing, a POST goes on to change it
ReviewOpen(h) ==
    /\ handler[h].pc = "idle"
    /\ \E issuer_id \in ReviewIds, method \in {"GET", "POST"},
          action \in ReviewActions :
         LET loaded == load_db(db)
             found == {i \in 1..Len(loaded.data) :
                          loaded.data[i].id = issuer_id}
         IN  /\ db' = loaded.file
             /\ IF found = {} \/ method = "GET"
                THEN UNCHANGED handler
                ELSE handler' = [handler EXCEPT ![h] =
                        [pc |-> "review", action |-> action,
                         issuers |-> loaded.data,
                         issuer |-> CHOOSE i \in found :
                                        \A j \in found : i <= j]]
    /\ UNCHANGED <<submitted, confirmed, oracle, scheduler>>

\* lines 200-216: the status is set in the list that was loaded and the
\* list is written back
ReviewSave(h) ==
    /\ handler[h].pc = "review"
    /\ LET r == handler[h]
           status == review_status(r.issuers[r.issuer].status, r.action)
       IN  /\ db' = list_file([r.issuers EXCEPT ![r.issuer].status = status])
           /\ handler' = [handler EXCEPT ![h] = Idle]
    /\ UNCHANGED <<submitted, confirmed, oracle, scheduler>>

ListingsInit ==
    /\ SchedulerIdle
    /\ db \in InitialStores
    /\ handler = [h \in Handlers |-> Idle]
    /\ submitted = 0 /\ confirmed = {}
    /\ cache = [kind |-> "missing"]
    /\ CACHE_LOCK = 0
    /\ worker = [w \in Workers |-> [pc |-> "idle"]]
    /\ written = {} /\ acked = {}

ListingsNext ==
    \E h \in Handlers :
        \/ OnboardPost(h) \/ OnboardSave(h)
        \/ ReviewOpen(h) \/ ReviewSave(h)

ListingsSpec == ListingsInit /\ [][ListingsNext]_vars

\* C27: every stored listing has a status among pending, approved and
\* rejected, whatever onboard submissions and review POSTs were handled;
\* an onboard submission stores its listing as pending, and a review POST
\* with an unknown action writes the list back as it was loaded.
C27_StatusesStayAllowed ==
    /\ [](\A i \in 1..Len(db.data) : db.data[i].status \in ALLOWED_STATUSES)
    /\ [][\A h \in Handlers :
            (handler[h].pc = "onboard" /\ handler'[h].pc = "idle") =>
                /\ Len(db'.data) = Len(handler[h].issuers) + 1
                /\ db'.data[Len(db'.data)].status = "pending"
                /\ db'.data[Len(db'.data)].company_name =
                       handler[h].form.company_name]_vars
    /\ [][\A h \in Handlers :
            (/\ handler[h].pc = "review" /\ handler'[h].pc = "idle"
             /\ handler[h].action \notin {"approve", "reject"}) =>
                /\ db' = list_file(handler[h].issuers)
                /\ db = list_file(handler[h].issuers) => db' = db]_vars

C27_Witness ==
    /\ \E i \in 1..Len(db.data) : db.data[i].status = "approved"
    /\ \E i \in 1..Len(db.data) : db.data[i].status = "rejected"
    /\ \E h \in Handlers :
          /\ handler[h].pc = "review"
          /\ handler[h].action = "archive"
          /\ db = list_file(handler[h].issuers)

\* C28: listing ids are unique and no accepted submission is lost: in
\* every interleaving of onboard requests, two of them handled at the same
\* time included, no two stored listings have the same id and every
\* submission that was accepted is in the store.
C28_UniqueIdsNothingLost ==
    /\ \A i, j \in 1..Len(db.data) :
          i # j => db.data[i].id # db.data[j].id
    /\ \A c \in confirmed :
          \E i \in 1..Len(db.data) : db.data[i].company_name = c

\* What holds of the ids: the listings of the store have distinct ids,
\* since every store is a list that was loaded plus one listing numbered
\* above all of it.
StoredIdsDistinct ==
    \A i, j \in 1..Len(db.data) : i # j => db.data[i].id # db.data[j].id

\* ======================================================================
\* tech/app/api_endpoints.py: the oracle cache
\* ======================================================================
\* what the cache file holds once _ensure_cache_file has created it
EmptyCache ==
    [kind |-> "json", cert_by_issuer |-> <<>>, price_by_issuer |-> <<>>]

\* _load_cache(): the content of the file, created first when missing
load_cache(file) == IF file.kind = "missing" THEN EmptyCache ELSE file

\* cache.setdefault(map, {})[issuer_id] = rec, then _save_cache(cache)
save_cache(loaded, map, issuer_id, rec) ==
    [loaded EXCEPT ![map] = (issuer_id :> rec) @@ @]

\* str.isdigit(): a non-empty string of digits
isdigit(chars) ==
    /\ Len(chars) > 0
    /\ \A i \in 1..Len(chars) :
          chars[i] \in {"0", "1", "2", "3", "4", "5", "6", "7", "8", "9"}

\* float() of a string of digits
RECURSIVE number(_)
number(chars) ==
    IF chars = <<>> THEN 0
    ELSE 10 * number(SubSeq(chars, 1, Len(chars) - 1))
         + (CHOOSE n \in 0..9 :
               <<"0", "1", "2", "3", "4", "5", "6", "7", "8", "9">>[n + 1]
                   = chars[Len(chars)])

\* str(int(issuer_id)): the digits without leading zeros
RECURSIVE dataset_key(_)
dataset_key(chars) ==
    IF Len(chars) > 1 /\ chars[1] = "0" THEN dataset_key(Tail(chars))
    ELSE chars

Endpoints ==
    {"set_cert", "set_price", "refresh_cert_one", "refresh_price_one"}

map_of(endpoint) ==
    IF endpoint \in {"set_cert", "refresh_cert_one"} THEN "cert_by_issuer"
    ELSE "price_by_issuer"

\* what a request may carry: issuer ids, ok flags, prices per kg
IssuerArgs == {<<"1">>, <<"2">>, <<"x">>, <<>>}
OkArgs == {0, 1, 2}
JpykgArgs == {<<"4", "2", "0", "0">>, <<>>}

\* the dataset behind DATASET_URL_DEFAULT, and a fetch that fails
Dataset ==
    [cert_by_issuer |->
        (<<"1">> :> [ok |-> 1, std |-> "JAS", sub |-> "organic"]),
     price_by_issuer |->
        (<<"1">> :> [ok |-> 1, sku |-> "rice-5kg", jpykg |-> 4100])]
FetchFault == [fault |-> "fetch_failed"]

\* the record a request is about to write, None when the request is
\* refused before it touches the cache (400, 404, 500)
record_of(endpoint, issuer_id, ok, jpykg, fetched) ==
    IF ~isdigit(issuer_id) THEN None
    ELSE IF endpoint = "set_cert"
    THEN IF ok \notin {0, 1} THEN None
         ELSE [ok |-> IF ok = 0 THEN 0 ELSE 1, std |-> "JGAP", sub |-> ""]
    ELSE IF endpoint = "set_price"
    THEN IF ~isdigit(jpykg) THEN None
         ELSE [ok |-> 1, sku |-> "", jpykg |-> number(jpykg)]
    ELSE IF fetched = FetchFault THEN None
    ELSE IF dataset_key(issuer_id) \notin DOMAIN fetched[map_of(endpoint)]
    THEN None
    ELSE fetched[map_of(endpoint)][dataset_key(issuer_id)]

\* the four admin endpoints up to their with-block: the arguments are
\* checked, the dataset is fetched by the refresh endpoints
AdminRequest(w) ==
    /\ worker[w].pc = "idle"
    /\ \E endpoint \in Endpoints, issuer_id \in IssuerArgs, ok \in OkArgs,
          jpykg \in JpykgArgs, fetched \in {Dataset, FetchFault} :
         LET rec == record_of(endpoint, issuer_id, ok, jpykg, fetched)
         IN  IF rec = None THEN UNCHANGED worker
             ELSE worker' = [worker EXCEPT ![w] =
                               [pc |-> "acquire", map |-> map_of(endpoint),
                                issuer_id |-> issuer_id, rec |-> rec]]
    /\ UNCHANGED <<cache, CACHE_LOCK, written, acked, listings, scheduler>>

\* mutant of lock_free: the lock is never seen as held
lock_never_held(lock) == TRUE

\* Lock.acquire() returns when no thread holds the lock
lock_free(lock) == lock = 0

\* with _CACHE_LOCK: the thread enters the block
AcquireLock(w) ==
    /\ worker[w].pc = "acquire"
    /\ lock_free(CACHE_LOCK)
    /\ CACHE_LOCK' = w
    /\ worker' = [worker EXCEPT ![w].pc = "load"]
    /\ UNCHANGED <<cache, written, acked, listings, scheduler>>

\* cache = _load_cache()
LoadCache(w) ==
    /\ worker[w].pc = "load"
    /\ cache' = load_cache(cache)
    /\ worker' = [worker EXCEPT ![w] =
                    [pc |-> "save", map |-> worker[w].map,
                     issuer_id |-> worker[w].issuer_id,
                     rec |-> worker[w].rec, cache |-> load_cache(cache)]]
    /\ UNCHANGED <<CACHE_LOCK, written, acked, listings, scheduler>>

\* the record is put into the loaded cache and the cache is saved
SaveCache(w) ==
    /\ worker[w].pc = "save"
    /\ LET r == worker[w]
       IN  /\ cache' = save_cache(r.cache, r.map, r.issuer_id, r.rec)
           /\ written' = written \cup {[map |-> r.map,
                                        issuer_id |-> r.issuer_id,
                                        rec |-> r.rec]}
           /\ worker' = [worker EXCEPT ![w] =
                           [pc |-> "release", map |-> r.map,
                            issuer_id |-> r.issuer_id, rec |-> r.rec]]
    /\ UNCHANGED <<CACHE_LOCK, acked, listings, scheduler>>

\* the thread leaves the with-block and answers ok = 1 with the record
ReleaseLock(w) ==
    /\ worker[w].pc = "release"
    /\ CACHE_LOCK' = 0
    /\ acked' = acked \cup {[map |-> worker[w].map,
                             issuer_id |-> worker[w].issuer_id,
                             rec |-> worker[w].rec]}
    /\ worker' = [worker EXCEPT ![w] = [pc |-> "idle"]]
    /\ UNCHANGED <<cache, written, listings, scheduler>>

CacheInit ==
    /\ SchedulerIdle
    /\ db = [kind |-> "missing", data |-> <<>>]
    /\ handler = [h \in Handlers |-> Idle]
    /\ submitted = 0 /\ confirmed = {}
    /\ cache \in {[kind |-> "missing"], EmptyCache}
    /\ CACHE_LOCK = 0
    /\ worker = [w \in Workers |-> [pc |-> "idle"]]
    /\ written = {} /\ acked = {}

CacheNext ==
    \E w \in Workers :
        \/ AdminRequest(w) \/ AcquireLock(w) \/ LoadCache(w)
        \/ SaveCache(w) \/ ReleaseLock(w)

CacheSpec == CacheInit /\ [][CacheNext]_vars

SameKey(a, b) == a.map = b.map /\ a.issuer_id = b.issuer_id

\* C29: no write to the oracle cache is lost: whatever the interleaving of
\* set_cert, set_price, refresh_cert_one and refresh_price_one requests,
\* the cache file holds a record under the key of every request answered
\* ok = 1, and it is that request's record unless a request for the same
\* map and issuer wrote another one.
C29_NoCacheWriteLost ==
    /\ \A a \in acked :
          /\ a \in written
          /\ cache.kind = "json"
          /\ a.issuer_id \in DOMAIN cache[a.map]
          /\ (\A b \in written : SameKey(a, b) => b.rec = a.rec) =>
                 cache[a.map][a.issuer_id] = a.rec
    /\ \A b \in written :
          /\ cache.kind = "json"
          /\ b.issuer_id \in DOMAIN cache[b.map]
          /\ \E c \in written :
                 SameKey(b, c) /\ cache[b.map][b.issuer_id] = c.rec

C29_Witness ==
    /\ \E a, b \in acked : a.map # b.map /\ a.issuer_id = b.issuer_id
    /\ \E a, b \in acked : a.map = b.map /\ a.issuer_id # b.issuer_id
    /\ \E v, w \in Workers :
          worker[v].pc = "release" /\ worker[w].pc = "acquire"

====
